---- MODULE Spec2Model ----
(***************************************************************************)
(* State-machine model of src/rs-result/__init__.py: the Option and Result *)
(* containers, their factories Some / Null / Ok / Err, and a caller that   *)
(* holds two Option references (o, old), one Result reference (r) and one  *)
(* generator obtained from iter().  Every method is an operator from the   *)
(* receiver's state to an outcome (a returned value, a raised exception or *)
(* a yielded element) and the receiver's new state.                        *)
(***************************************************************************)
EXTENDS Integers, Sequences, FiniteSets, TLC

\* Largest integer payload the caller stores in a container.
MaxVal == 2

----------------------------------------------------------------------------
\* Python values that flow through the containers.

PyInt(k) == [t |-> "int", n |-> k, s |-> ""]

PyStr(x) == [t |-> "str", n |-> 0, s |-> x]

PyBool(b) == [t |-> "bool", n |-> IF b THEN 1 ELSE 0, s |-> ""]

None == [t |-> "NoneType", n |-> 0, s |-> ""]

Val == {PyInt(k) : k \in 1..MaxVal}

ValOrNone == Val \cup {None}

Msgs == {PyStr("msg")}

----------------------------------------------------------------------------
\* Outcomes of a call: what it returned, raised or (for a generator) yielded.

Ret(v) == [kind |-> "return", cls |-> "", val |-> v]

\* A returned container (a newly constructed Option).
RetOption(o) == [kind |-> "return", cls |-> "Option", val |-> o]

Raise(cls, arg) == [kind |-> "raise", cls |-> cls, val |-> arg]

Yield(v) == [kind |-> "yield", cls |-> "", val |-> v]

\* The result of running a method: outcome, the receiver afterwards, and the
\* number of times a caller-supplied callable was invoked.
Done(out, self, calls) == [out |-> out, self |-> self, calls |-> calls]

----------------------------------------------------------------------------
\* Caller-supplied callables.

Succ == [kind |-> "succ", v |-> None]

ToNone == [kind |-> "to_none", v |-> None]

Const(d) == [kind |-> "const", v |-> d]

NoFunc == [kind |-> "", v |-> None]

\* lambda: _raise(Exception(msg))
RaiseThunk(msg) == [kind |-> "raise", v |-> msg]

\* def _raise(e): raise e
_raise(e) == Raise("Exception", e)

\* f(x) for a one-argument callable.
Call1(f, x) ==
    CASE f.kind = "succ" ->
            IF x.t = "int" THEN Ret(PyInt(x.n + 1))
            ELSE Raise("TypeError", PyStr("unsupported operand type(s) for +"))
      [] f.kind = "to_none" -> Ret(None)
      [] f.kind = "const" -> Ret(f.v)
      [] OTHER -> _raise(f.v)

\* thunk() for a zero-argument callable.
Call0(th) ==
    CASE th.kind = "const" -> Ret(th.v)
      [] th.kind = "to_none" -> Ret(None)
      [] OTHER -> _raise(th.v)

----------------------------------------------------------------------------
\* class Option

\* Option.__init__
Option(value) == [value |-> value]

Some_tagged(value) == Option([t |-> "Some", n |-> value.n, s |-> value.s])

\* class Some: __new__ returns Option[T](value)
Some(value) == Option(value)

\* class Null: __new__ returns Option[T](None)
Null == Option(None)

is_some_consuming(self) == Done(Ret(PyBool(self.value # None)), Option(None), 0)

is_some(self) == Done(Ret(PyBool(self.value # None)), self, 0)

is_null(self) == Done(Ret(PyBool(self.value = None)), self, 0)

Option_unwrap_keeping(self) ==
    LET c == is_some(self) IN
    IF c.out.val = PyBool(TRUE)
    THEN Done(Ret(c.self.value), c.self, 0)
    ELSE Done(Raise("Exception", PyStr("Called unwrap on a null value")), c.self, 0)

Option_unwrap(self) ==
    LET c == is_some(self) IN
    IF c.out.val = PyBool(TRUE)
    THEN Done(Ret(c.self.value), Option(None), 0)
    ELSE Done(Raise("Exception", PyStr("Called unwrap on a null value")), c.self, 0)

Option_unwrap_or(self, default) ==
    LET c == is_some(self) IN
    IF c.out.val = PyBool(TRUE)
    THEN Done(Ret(c.self.value), Option(None), 0)
    ELSE Done(Ret(default), c.self, 0)

Option_unwrap_or_else(self, default) ==
    LET c == is_some(self) IN
    IF c.out.val = PyBool(TRUE)
    THEN Done(Ret(c.self.value), Option(None), 0)
    ELSE Done(Call0(default), c.self, 1)

Option_unwrap_unchecked(self) == Done(Ret(self.value), Option(None), 0)

\* The callable's outcome wrapped by Some[T](...), or its exception passed on.
WrapSome(res) == IF res.kind = "return" THEN RetOption(Some(res.val)) ELSE res

Option_map_unapplied(self, func) ==
    LET c == is_some(self) IN
    IF c.out.val = PyBool(TRUE)
    THEN Done(RetOption(Some(c.self.value)), c.self, 0)
    ELSE Done(RetOption(Null), c.self, 0)

Option_map(self, func) ==
    LET c == is_some(self) IN
    IF c.out.val = PyBool(TRUE)
    THEN Done(WrapSome(Call1(func, c.self.value)), c.self, 1)
    ELSE Done(RetOption(Null), c.self, 0)

Option_map_or(self, default, func) ==
    LET c == is_some(self) IN
    IF c.out.val = PyBool(TRUE)
    THEN Done(Call1(func, c.self.value), c.self, 1)
    ELSE Done(Ret(default), c.self, 0)

Option_map_or_else(self, default, func) ==
    LET c == is_some(self) IN
    IF c.out.val = PyBool(TRUE)
    THEN Done(Call1(func, c.self.value), c.self, 1)
    ELSE Done(Call0(default), c.self, 1)

Option_replace_dropping(self, value) ==
    LET ret == self.value IN
    IF ret = None THEN Done(RetOption(Null), self, 0)
    ELSE Done(RetOption(Some(ret)), self, 0)

Option_replace(self, value) ==
    LET ret == self.value IN
    IF ret = None THEN Done(RetOption(Null), Option(value), 0)
    ELSE Done(RetOption(Some(ret)), Option(value), 0)

Option_take_peeking(self) == Done(RetOption(Option(self.value)), self, 0)

Option_take(self) == Option_replace(self, None)

Option_expect_fixed(self, msg) == Option_unwrap(self)

Option_expect(self, msg) == Option_unwrap_or_else(self, RaiseThunk(msg))

\* The generator object iter() returns; its body has not started running.
Generator == [t |-> "generator", n |-> 0, s |-> ""]

Option_iter(self) == Done(Ret(Generator), self, 0)

Option_iter_next_single(self, pc) ==
    IF pc = "start" /\ is_some(self).out.val = PyBool(TRUE)
    THEN [out |-> Yield(Some(self.value)), self |-> self, pc |-> "L163"]
    ELSE [out |-> Raise("StopIteration", None), self |-> self, pc |-> "closed"]

Option_iter_next_consuming(self, pc) ==
    CASE pc = "start" ->
            IF is_some(self).out.val = PyBool(TRUE)
            THEN [out |-> Yield(Some(self.value)), self |-> Option(None), pc |-> "L161"]
            ELSE [out |-> Yield(Null), self |-> self, pc |-> "L163"]
      [] pc = "L161" -> [out |-> Yield(Null), self |-> self, pc |-> "L163"]
      [] OTHER -> [out |-> Raise("StopIteration", None), self |-> self, pc |-> "closed"]

\* One advance of the generator made by Option.iter, from position pc of its
\* body: "start" (not begun), "L161" (suspended at the first yield), "L163"
\* (suspended at the second yield), "closed" (returned or raised).
Option_iter_next(self, pc) ==
    CASE pc = "start" ->
            LET c == is_some(self) IN
            IF c.out.val = PyBool(TRUE)
            THEN [out |-> Yield(Some(c.self.value)), self |-> c.self, pc |-> "L161"]
            ELSE [out |-> Yield(Null), self |-> c.self, pc |-> "L163"]
      [] pc = "L161" -> [out |-> Yield(Null), self |-> self, pc |-> "L163"]
      [] OTHER -> [out |-> Raise("StopIteration", None), self |-> self, pc |-> "closed"]

----------------------------------------------------------------------------
\* class Result

\* class Result._Ok
_Ok(value) == [cls |-> "_Ok", value |-> value]

\* class Result._Err
_Err(error) == [cls |-> "_Err", error |-> error]

\* Result.__init__
Result(value) == [value |-> value]

\* class Ok: __new__ returns Result[T, E](Result._Ok[T](value))
Ok(value) == Result(_Ok(value))

\* class Err: __new__ returns Result[T, E](Result._Err[E](error))
Err(error) == Result(_Err(error))

\* self.value(): _Ok.__call__ / _Err.__call__, or a call of None once the
\* cell has been cleared.
CallCell(cell) ==
    IF cell = None
    THEN Raise("TypeError", PyStr("'NoneType' object is not callable"))
    ELSE IF cell.cls = "_Ok" THEN Ret(cell.value) ELSE Ret(cell.error)

isinstance_class(obj, cls) == Ret(PyBool(obj # None /\ obj.cls = cls))

\* isinstance(obj, self._Ok[T]) / isinstance(obj, self._Err[E]): the second
\* argument is a subscripted generic alias, not a class, and the alias's
\* __instancecheck__ raises TypeError for every obj.
isinstance(obj, cls) ==
    Raise("TypeError",
          PyStr("Subscripted generics cannot be used with class and instance checks"))

is_ok(self) == Done(isinstance(self.value, "_Ok"), self, 0)

is_err(self) == Done(isinstance(self.value, "_Err"), self, 0)

\* Some[T](self.value()) or the exception of self.value().
SomeOfCell(self) ==
    LET v == CallCell(self.value) IN
    Done(IF v.kind = "raise" THEN v ELSE RetOption(Some(v.val)), self, 0)

ok(self) ==
    LET c == is_ok(self) IN
    IF c.out.kind = "raise" THEN c
    ELSE IF c.out.val = PyBool(TRUE) THEN SomeOfCell(c.self)
    ELSE Done(RetOption(Null), c.self, 0)

err(self) ==
    LET c == is_err(self) IN
    IF c.out.kind = "raise" THEN c
    ELSE IF c.out.val = PyBool(TRUE) THEN SomeOfCell(c.self)
    ELSE Done(RetOption(Null), c.self, 0)

Result_expect(self, msg) ==
    LET c == is_ok(self) IN
    IF c.out.kind = "raise" THEN c
    ELSE IF c.out.val = PyBool(TRUE) THEN Done(CallCell(c.self.value), c.self, 0)
    ELSE Done(Raise("Exception", msg), c.self, 0)

Extract_keeping(self) == Done(CallCell(self.value), self, 0)

\* value = self.value(); self.value = None; return value
Extract(self) ==
    LET v == CallCell(self.value) IN
    IF v.kind = "raise" THEN Done(v, self, 0) ELSE Done(v, Result(None), 0)

\* raise Exception(self.value())
RaisePayload(self) ==
    LET v == CallCell(self.value) IN
    Done(IF v.kind = "raise" THEN v ELSE Raise("Exception", v.val), self, 0)

Result_unwrap(self) ==
    LET c == is_ok(self) IN
    IF c.out.kind = "raise" THEN c
    ELSE IF c.out.val = PyBool(TRUE) THEN Extract(c.self)
    ELSE RaisePayload(c.self)

Result_unwrap_or(self, default) ==
    LET c == is_ok(self) IN
    IF c.out.kind = "raise" THEN c
    ELSE IF c.out.val = PyBool(TRUE) THEN Extract(c.self)
    ELSE Done(Ret(default), c.self, 0)

Result_unwrap_or_else(self, default) ==
    LET c == is_ok(self) IN
    IF c.out.kind = "raise" THEN c
    ELSE IF c.out.val = PyBool(TRUE) THEN Extract(c.self)
    ELSE LET v == CallCell(c.self.value) IN
         IF v.kind = "raise" THEN Done(v, c.self, 0)
         ELSE Done(Call1(default, v.val), c.self, 1)

Result_unwrap_unchecked(self) == Extract(self)

Result_unwrap_err(self) ==
    LET c == is_err(self) IN
    IF c.out.kind = "raise" THEN c
    ELSE IF c.out.val = PyBool(TRUE) THEN Extract(c.self)
    ELSE RaisePayload(c.self)

Result_unwrap_err_checked(self) == Result_unwrap_err(self)

Result_unwrap_err_unchecked(self) == Extract(self)

Result_iter(self) == Done(Ret(Generator), self, 0)

\* One advance of the generator made by Result.iter, from position pc of its
\* body: "start", "L279" (suspended at the first yield), "L281" (suspended at
\* the second yield), "closed".
Result_iter_next(self, pc) ==
    CASE pc = "start" ->
            LET c == is_ok(self) IN
            IF c.out.kind = "raise"
            THEN [out |-> c.out, self |-> c.self, pc |-> "closed"]
            ELSE IF c.out.val = PyBool(TRUE)
            THEN LET v == SomeOfCell(c.self) IN
                 IF v.out.kind = "raise"
                 THEN [out |-> v.out, self |-> v.self, pc |-> "closed"]
                 ELSE [out |-> Yield(v.out.val), self |-> v.self, pc |-> "L279"]
            ELSE [out |-> Yield(Null), self |-> c.self, pc |-> "L281"]
      [] pc = "L279" -> [out |-> Yield(Null), self |-> self, pc |-> "L281"]
      [] OTHER -> [out |-> Raise("StopIteration", None), self |-> self, pc |-> "closed"]

----------------------------------------------------------------------------
\* The caller: two Option references, one Result reference, one generator.

VARIABLES
    opt,      \* opt["o"], opt["old"]: the Option instances the caller holds
    r,        \* the Result instance the caller holds
    built,    \* the factory r was built by: "Ok" or "Err"
    gen,      \* the generator the caller holds: its source, its position
              \* and whether the source held a payload when iter() was called
    yielded,  \* the elements the generator has yielded so far
    call,     \* the last completed call: receiver, operation, arguments,
              \* the state it started from and its outcome
    twin,     \* two Options, built by Some(None) and by Null(), put through
              \* the same calls: their slots, outcomes and generators
    race      \* two threads inside unwrap() on opt["o"]: each one's position,
              \* local variable and outcome

vars == <<opt, r, built, gen, yielded, call, twin, race>>

Threads == {"t1", "t2"}

\* The twin pair before any call: a is Some(None), b is Null().
TwinNew ==
    [a |-> Some(None), b |-> Null, op |-> "new", stored |-> FALSE,
     outa |-> Ret(None), outb |-> Ret(None),
     pca |-> "none", pcb |-> "none", ya |-> <<>>, yb |-> <<>>]

\* Both threads about to call unwrap() on an Option built holding x.
RaceNew(x) ==
    [x0 |-> x,
     th |-> [t \in Threads |->
                [pc |-> "L33", some |-> None, value |-> None, out |-> Ret(None)]]]

OptNames == {"o", "old"}

Errs == {PyStr("e")}

Funcs == {Succ, ToNone}

\* The default the caller passes where a method takes one: a value no
\* container holds, so a returned default is told apart from a payload.
Defaults == {PyInt(0)}

Thunks == {Const(d) : d \in Defaults}

NoGen == [src |-> "none", pc |-> "closed", at |-> FALSE]

Snapshot == [opt |-> opt, r |-> r]

Completed(x, op, arg, thunk, func, res) ==
    [self |-> x, op |-> op, arg |-> arg, thunk |-> thunk, func |-> func,
     pre |-> Snapshot, out |-> res.out, calls |-> res.calls]

\* The caller applies succ only where the result stays within MaxVal.
InRange(func, v) == func = Succ => (v.t = "int" => v.n < MaxVal)

Init ==
    /\ opt \in [OptNames -> {Some(v) : v \in ValOrNone} \cup {Null}]
    /\ \E b \in {"Ok", "Err"} :
          /\ built = b
          /\ r \in IF b = "Ok" THEN {Ok(v) : v \in Val} ELSE {Err(e) : e \in Errs}
    /\ gen = NoGen
    /\ yielded = <<>>
    /\ call = [self |-> "none", op |-> "new", arg |-> None, thunk |-> NoFunc,
               func |-> NoFunc, pre |-> Snapshot, out |-> Ret(None), calls |-> 0]
    /\ twin = TwinNew
    /\ race = RaceNew(None)

\* A method of Option instance x completes with res.  A container it returns
\* is bound to the caller's reference old.
OptionCall(x, op, arg, thunk, func, res) ==
    /\ opt' = LET kept == [opt EXCEPT ![x] = res.self] IN
              IF res.out.kind = "return" /\ res.out.cls = "Option"
              THEN [kept EXCEPT !["old"] = res.out.val]
              ELSE kept
    /\ call' = Completed(x, op, arg, thunk, func, res)
    /\ UNCHANGED <<r, built, gen, yielded, twin, race>>

\* A method of the Result instance completes with res.
ResultCall(op, arg, thunk, func, res) ==
    /\ r' = res.self
    /\ opt' = IF res.out.kind = "return" /\ res.out.cls = "Option"
              THEN [opt EXCEPT !["old"] = res.out.val]
              ELSE opt
    /\ call' = Completed("r", op, arg, thunk, func, res)
    /\ UNCHANGED <<built, gen, yielded, twin, race>>

OptIsSome == \E x \in OptNames :
    OptionCall(x, "is_some", None, NoFunc, NoFunc, is_some(opt[x]))

OptIsNull == \E x \in OptNames :
    OptionCall(x, "is_null", None, NoFunc, NoFunc, is_null(opt[x]))

OptUnwrap == \E x \in OptNames :
    OptionCall(x, "unwrap", None, NoFunc, NoFunc, Option_unwrap(opt[x]))

OptUnwrapOr == \E x \in OptNames, d \in Defaults :
    OptionCall(x, "unwrap_or", d, NoFunc, NoFunc, Option_unwrap_or(opt[x], d))

OptUnwrapOrElse == \E x \in OptNames, th \in Thunks :
    OptionCall(x, "unwrap_or_else", None, th, NoFunc, Option_unwrap_or_else(opt[x], th))

OptUnwrapUnchecked == \E x \in OptNames :
    OptionCall(x, "unwrap_unchecked", None, NoFunc, NoFunc, Option_unwrap_unchecked(opt[x]))

OptMap == \E x \in OptNames, f \in Funcs :
    /\ InRange(f, opt[x].value)
    /\ OptionCall(x, "map", None, NoFunc, f, Option_map(opt[x], f))

OptMapOr == \E x \in OptNames, d \in Defaults, f \in Funcs :
    /\ InRange(f, opt[x].value)
    /\ OptionCall(x, "map_or", d, NoFunc, f, Option_map_or(opt[x], d, f))

OptMapOrElse == \E x \in OptNames, th \in Thunks, f \in Funcs :
    /\ InRange(f, opt[x].value)
    /\ OptionCall(x, "map_or_else", None, th, f, Option_map_or_else(opt[x], th, f))

OptReplace == \E x \in OptNames, v \in ValOrNone :
    OptionCall(x, "replace", v, NoFunc, NoFunc, Option_replace(opt[x], v))

OptTake == \E x \in OptNames :
    OptionCall(x, "take", None, NoFunc, NoFunc, Option_take(opt[x]))

OptExpect == \E x \in OptNames, m \in Msgs :
    OptionCall(x, "expect", m, NoFunc, NoFunc, Option_expect(opt[x], m))

\* iter() only creates the generator; none of its body runs yet.  The caller
\* takes its generators from o and from r.
OptIter == \E x \in {"o"} :
    /\ gen' = [src |-> x, pc |-> "start", at |-> opt[x].value # None]
    /\ yielded' = <<>>
    /\ call' = Completed(x, "iter", None, NoFunc, NoFunc, Option_iter(opt[x]))
    /\ UNCHANGED <<opt, r, built, twin, race>>

ResIsOk == ResultCall("is_ok", None, NoFunc, NoFunc, is_ok(r))

ResIsErr == ResultCall("is_err", None, NoFunc, NoFunc, is_err(r))

ResOk == ResultCall("ok", None, NoFunc, NoFunc, ok(r))

ResErr == ResultCall("err", None, NoFunc, NoFunc, err(r))

ResExpect == \E m \in Msgs :
    ResultCall("expect", m, NoFunc, NoFunc, Result_expect(r, m))

ResUnwrap == ResultCall("unwrap", None, NoFunc, NoFunc, Result_unwrap(r))

ResUnwrapOr == \E d \in Defaults :
    ResultCall("unwrap_or", d, NoFunc, NoFunc, Result_unwrap_or(r, d))

ResUnwrapOrElse == \E f \in Thunks :
    ResultCall("unwrap_or_else", None, NoFunc, f, Result_unwrap_or_else(r, f))

ResUnwrapUnchecked ==
    ResultCall("unwrap_unchecked", None, NoFunc, NoFunc, Result_unwrap_unchecked(r))

ResUnwrapErr == ResultCall("unwrap_err", None, NoFunc, NoFunc, Result_unwrap_err(r))

ResUnwrapErrUnchecked ==
    ResultCall("unwrap_err_unchecked", None, NoFunc, NoFunc, Result_unwrap_err_unchecked(r))

ResIter ==
    /\ gen' = [src |-> "r", pc |-> "start", at |-> r.value # None]
    /\ yielded' = <<>>
    /\ call' = Completed("r", "iter", None, NoFunc, NoFunc, Result_iter(r))
    /\ UNCHANGED <<opt, r, built, twin, race>>

\* next(gen): the generator's body runs to its next yield, its return or an
\* exception, against the source container as it is now.
GenNext ==
    /\ gen.src # "none"
    /\ LET step == IF gen.src = "r" THEN Result_iter_next(r, gen.pc)
                   ELSE Option_iter_next(opt[gen.src], gen.pc) IN
       /\ gen' = [gen EXCEPT !.pc = step.pc]
       /\ yielded' = IF step.out.kind = "yield"
                     THEN Append(yielded, step.out.val) ELSE yielded
       /\ r' = IF gen.src = "r" THEN step.self ELSE r
       /\ opt' = IF gen.src = "r" THEN opt ELSE [opt EXCEPT ![gen.src] = step.self]
       /\ call' = [self |-> gen.src, op |-> "next", arg |-> None, thunk |-> NoFunc,
                   func |-> NoFunc, pre |-> Snapshot, out |-> step.out, calls |-> 0]
    /\ UNCHANGED <<built, twin, race>>

Next ==
    \/ OptIsSome \/ OptIsNull \/ OptUnwrap \/ OptUnwrapOr \/ OptUnwrapOrElse
    \/ OptUnwrapUnchecked \/ OptMap \/ OptMapOr \/ OptMapOrElse \/ OptReplace
    \/ OptTake \/ OptExpect \/ OptIter
    \/ ResIsOk \/ ResIsErr \/ ResOk \/ ResErr \/ ResExpect \/ ResUnwrap
    \/ ResUnwrapOr \/ ResUnwrapOrElse \/ ResUnwrapUnchecked \/ ResUnwrapErr
    \/ ResUnwrapErrUnchecked \/ ResIter
    \/ GenNext

Spec == Init /\ [][Next]_vars

----------------------------------------------------------------------------
\* Some(None) and Null() side by side: every call is made on both.

\* The containers other than the twin pair, left alone.
Idle ==
    /\ opt = [x \in OptNames |-> Null]
    /\ r = Ok(PyInt(1))
    /\ built = "Ok"
    /\ gen = NoGen
    /\ yielded = <<>>
    /\ call = [self |-> "none", op |-> "new", arg |-> None, thunk |-> NoFunc,
               func |-> NoFunc, pre |-> Snapshot, out |-> Ret(None), calls |-> 0]

InitTwin == Idle /\ twin = TwinNew /\ race = RaceNew(None)

\* The same method call completes with ra on a and with rb on b.
TwinCall(op, ra, rb) ==
    /\ twin' = [twin EXCEPT !.a = ra.self, !.b = rb.self, !.op = op,
                            !.outa = ra.out, !.outb = rb.out]
    /\ UNCHANGED <<opt, r, built, gen, yielded, call, race>>

TwinIsSome == TwinCall("is_some", is_some(twin.a), is_some(twin.b))

TwinIsNull == TwinCall("is_null", is_null(twin.a), is_null(twin.b))

TwinUnwrap == TwinCall("unwrap", Option_unwrap(twin.a), Option_unwrap(twin.b))

TwinUnwrapOr == \E d \in Defaults :
    TwinCall("unwrap_or", Option_unwrap_or(twin.a, d), Option_unwrap_or(twin.b, d))

TwinUnwrapOrElse == \E th \in Thunks :
    TwinCall("unwrap_or_else", Option_unwrap_or_else(twin.a, th),
             Option_unwrap_or_else(twin.b, th))

TwinUnwrapUnchecked ==
    TwinCall("unwrap_unchecked", Option_unwrap_unchecked(twin.a),
             Option_unwrap_unchecked(twin.b))

TwinMap == \E f \in Funcs :
    /\ InRange(f, twin.a.value) /\ InRange(f, twin.b.value)
    /\ TwinCall("map", Option_map(twin.a, f), Option_map(twin.b, f))

TwinMapOr == \E d \in Defaults, f \in Funcs :
    /\ InRange(f, twin.a.value) /\ InRange(f, twin.b.value)
    /\ TwinCall("map_or", Option_map_or(twin.a, d, f), Option_map_or(twin.b, d, f))

TwinMapOrElse == \E th \in Thunks, f \in Funcs :
    /\ InRange(f, twin.a.value) /\ InRange(f, twin.b.value)
    /\ TwinCall("map_or_else", Option_map_or_else(twin.a, th, f),
                Option_map_or_else(twin.b, th, f))

TwinReplace == \E v \in ValOrNone :
    LET ra == Option_replace(twin.a, v)
        rb == Option_replace(twin.b, v) IN
    /\ twin' = [twin EXCEPT !.a = ra.self, !.b = rb.self, !.op = "replace",
                            !.outa = ra.out, !.outb = rb.out,
                            !.stored = twin.stored \/ v # None]
    /\ UNCHANGED <<opt, r, built, gen, yielded, call, race>>

TwinTake == TwinCall("take", Option_take(twin.a), Option_take(twin.b))

TwinExpect == \E m \in Msgs :
    TwinCall("expect", Option_expect(twin.a, m), Option_expect(twin.b, m))

TwinIter ==
    LET ra == Option_iter(twin.a)
        rb == Option_iter(twin.b) IN
    /\ twin' = [twin EXCEPT !.a = ra.self, !.b = rb.self, !.op = "iter",
                            !.outa = ra.out, !.outb = rb.out,
                            !.pca = "start", !.pcb = "start",
                            !.ya = <<>>, !.yb = <<>>]
    /\ UNCHANGED <<opt, r, built, gen, yielded, call, race>>

\* Both generators are advanced once.
TwinGenNext ==
    /\ twin.pca # "none"
    /\ LET sa == Option_iter_next(twin.a, twin.pca)
           sb == Option_iter_next(twin.b, twin.pcb) IN
       twin' = [twin EXCEPT
                   !.a = sa.self, !.b = sb.self, !.op = "next",
                   !.outa = sa.out, !.outb = sb.out,
                   !.pca = sa.pc, !.pcb = sb.pc,
                   !.ya = IF sa.out.kind = "yield" THEN Append(twin.ya, sa.out.val)
                          ELSE twin.ya,
                   !.yb = IF sb.out.kind = "yield" THEN Append(twin.yb, sb.out.val)
                          ELSE twin.yb]
    /\ UNCHANGED <<opt, r, built, gen, yielded, call, race>>

NextTwin ==
    \/ TwinIsSome \/ TwinIsNull \/ TwinUnwrap \/ TwinUnwrapOr \/ TwinUnwrapOrElse
    \/ TwinUnwrapUnchecked \/ TwinMap \/ TwinMapOr \/ TwinMapOrElse
    \/ TwinReplace \/ TwinTake \/ TwinExpect \/ TwinIter \/ TwinGenNext

SpecTwin == InitTwin /\ [][NextTwin]_vars

----------------------------------------------------------------------------
\* Two threads call unwrap() on the same Option; a thread switch can fall
\* between any two of the statements of lines 49-54.

InitRace ==
    /\ \E x \in ValOrNone :
          /\ opt = [o |-> Some(x), old |-> Null]
          /\ race = RaceNew(x)
    /\ r = Ok(PyInt(1))
    /\ built = "Ok"
    /\ gen = NoGen
    /\ yielded = <<>>
    /\ call = [self |-> "none", op |-> "new", arg |-> None, thunk |-> NoFunc,
               func |-> NoFunc, pre |-> Snapshot, out |-> Ret(None), calls |-> 0]
    /\ twin = TwinNew

\* Line 49 calls self.is_some(), whose body (line 33) reads the slot and
\* returns the bool to unwrap().
RaceCheck(t) ==
    /\ race.th[t].pc = "L33"
    /\ LET c == is_some(opt["o"]) IN
       /\ opt' = [opt EXCEPT !["o"] = c.self]
       /\ race' = [race EXCEPT !.th[t].pc = "L49", !.th[t].some = c.out.val]
    /\ UNCHANGED <<r, built, gen, yielded, call, twin>>

\* Line 49: the branch on the bool is_some() returned; line 54 when it is
\* false.
RaceBranch(t) ==
    /\ race.th[t].pc = "L49"
    /\ race' = IF race.th[t].some = PyBool(TRUE)
               THEN [race EXCEPT !.th[t].pc = "L50"]
               ELSE [race EXCEPT
                        !.th[t].pc = "done",
                        !.th[t].out = Raise("Exception",
                                            PyStr("Called unwrap on a null value"))]
    /\ UNCHANGED <<opt, r, built, gen, yielded, call, twin>>

\* Line 50: value = self._value
RaceRead(t) ==
    /\ race.th[t].pc = "L50"
    /\ race' = [race EXCEPT !.th[t].pc = "L51", !.th[t].value = opt["o"].value]
    /\ UNCHANGED <<opt, r, built, gen, yielded, call, twin>>

RaceReset_skipping(t) ==
    /\ race.th[t].pc = "L51"
    /\ race' = [race EXCEPT !.th[t].pc = "L52"]
    /\ UNCHANGED <<opt, r, built, gen, yielded, call, twin>>

\* Line 51: self._value = None
RaceReset(t) ==
    /\ race.th[t].pc = "L51"
    /\ opt' = [opt EXCEPT !["o"] = Option(None)]
    /\ race' = [race EXCEPT !.th[t].pc = "L52"]
    /\ UNCHANGED <<r, built, gen, yielded, call, twin>>

\* Line 52: return value
RaceReturn(t) ==
    /\ race.th[t].pc = "L52"
    /\ race' = [race EXCEPT !.th[t].pc = "done",
                            !.th[t].out = Ret(race.th[t].value)]
    /\ UNCHANGED <<opt, r, built, gen, yielded, call, twin>>

NextRace ==
    \/ \E t \in Threads : RaceCheck(t)
    \/ \E t \in Threads : RaceBranch(t)
    \/ \E t \in Threads : RaceRead(t)
    \/ \E t \in Threads : RaceReset(t)
    \/ \E t \in Threads : RaceReturn(t)

SpecRace == InitRace /\ [][NextRace]_vars

----------------------------------------------------------------------------
\* Vocabulary of the properties.

\* The slot of Option instance x before and after the last call.
Before(x) == call.pre.opt[x].value

After(x) == opt[x].value

\* The payload of the Result's cell before the last call.
PayloadBefore ==
    IF call.pre.r.value = None THEN None
    ELSE IF call.pre.r.value.cls = "_Ok" THEN call.pre.r.value.value
    ELSE call.pre.r.value.error

OptionExtractors ==
    {"unwrap", "unwrap_or", "unwrap_or_else", "unwrap_unchecked", "expect"}

ResultExtractors ==
    {"expect", "unwrap", "unwrap_or", "unwrap_or_else", "unwrap_unchecked",
     "unwrap_err", "unwrap_err_unchecked"}

Checks == {"is_some", "is_null", "is_ok", "is_err"}

NeverFailing ==
    Checks \cup {"unwrap_or", "unwrap_or_else", "map_or", "map_or_else"}

\* What is_some() and is_null() report on Option instance x now.
ReportsAbsent(x) ==
    /\ is_some(opt[x]).out = Ret(PyBool(FALSE))
    /\ is_null(opt[x]).out = Ret(PyBool(TRUE))

ReportsPresent(o) ==
    /\ is_some(o).out = Ret(PyBool(TRUE))
    /\ is_null(o).out = Ret(PyBool(FALSE))

----------------------------------------------------------------------------
\* C1 -- Option single consumption.  Once unwrap, unwrap_or, unwrap_or_else,
\* unwrap_unchecked or expect has been called on instance o holding x (not
\* None), it returned x and o reports absent; an absent o becomes present
\* only by a replace on o; and unwrap on an absent o raises instead of
\* returning.
C1_SingleConsumption ==
    /\ (call.self = "o" /\ call.op \in OptionExtractors /\ Before("o") # None)
          => /\ call.out = Ret(Before("o"))
             /\ After("o") = None
             /\ ReportsAbsent("o")
    /\ (Before("o") = None /\ After("o") # None)
          => (call.self = "o" /\ call.op = "replace")
    /\ (call.self = "o" /\ call.op = "unwrap" /\ Before("o") = None)
          => (call.out.kind = "raise" /\ After("o") = None)

\* An extraction from o has just returned its payload and left o absent.
C1_Witness ==
    /\ call.self = "o" /\ call.op = "expect"
    /\ Before("o") = PyInt(1) /\ call.out = Ret(PyInt(1))
    /\ ReportsAbsent("o")

C3_TagStable ==
    /\ (call.self = "r" /\ call.op = "is_ok")
          => call.out = Ret(PyBool(built = "Ok"))
    /\ (call.self = "r" /\ call.op = "is_err")
          => call.out = Ret(PyBool(built = "Err"))

\* C4 -- Never-failing operations, as claimed: is_some, is_null, is_ok,
\* is_err, unwrap_or, unwrap_or_else, map_or and map_or_else never raise
\* (the callables the caller passes to them here never fail).
C4_NeverFails ==
    (call.self \in OptNames \cup {"r"} /\ call.op \in NeverFailing)
        => call.out.kind # "raise"

\* C5 -- Option.map is extracting, as claimed: after map(f) on a present o,
\* o is absent and a following unwrap() on it fails.
C5_MapConsumes ==
    (call.self = "o" /\ call.op = "map" /\ Before("o") # None)
        => /\ ReportsAbsent("o")
           /\ Option_unwrap(opt["o"]).out.kind = "raise"

\* C6 -- iter() yields 0 or 1 elements, as claimed, for an Option source:
\* when the generator is exhausted it has yielded exactly one element, which
\* holds the contained value, if its source is present, and nothing if its
\* source is absent.  (On a Result source the first advance raises TypeError
\* from is_ok, so nothing is ever yielded.)
C6_IterZeroOrOne ==
    (/\ call.op = "next" /\ call.out = Raise("StopIteration", None)
     /\ gen.src \in OptNames)
        => /\ Len(yielded) <= 1
           /\ yielded = IF After(gen.src) # None
                        THEN <<Some(After(gen.src))>> ELSE <<>>

\* C7 -- Option.map result, as claimed: on a present receiver map(f) calls f
\* once and returns a present container wrapping f(value); on an absent
\* receiver it returns an absent container without calling f.
C7_MapResultPresent ==
    (call.self \in OptNames /\ call.op = "map")
        => IF call.pre.opt[call.self].value # None
           THEN /\ call.calls = 1
                /\ call.out = RetOption(Some(Call1(call.func, call.pre.opt[call.self].value).val))
                /\ ReportsPresent(call.out.val)
           ELSE /\ call.calls = 0
                /\ call.out = RetOption(Null)

\* C7 amended: as above, except that the returned container reports present
\* exactly when f(value) is not None; when f(value) is None it is the same as
\* an absent container.
C7_MapResult ==
    (call.self \in OptNames /\ call.op = "map")
        => IF call.pre.opt[call.self].value # None
           THEN LET fv == Call1(call.func, call.pre.opt[call.self].value).val IN
                /\ call.calls = 1
                /\ call.out = RetOption(Some(fv))
                /\ opt["old"] = Some(fv)
                /\ fv # None => ReportsPresent(call.out.val)
                /\ fv = None => call.out.val = Null
           ELSE /\ call.calls = 0
                /\ call.out = RetOption(Null)
                /\ opt["old"] = Null

\* map(succ) on o holding 1 has returned a present container holding 2.
C7_Witness ==
    /\ call.self = "o" /\ call.op = "map" /\ call.func = Succ
    /\ Before("o") = PyInt(1)
    /\ call.out = RetOption(Some(PyInt(2)))
    /\ ReportsPresent(opt["old"])

\* C8 -- Option.replace, as claimed: replace(v) on o with content c leaves o
\* holding v and returns a separate container holding c; no call on the
\* returned container changes o; and a following unwrap() on o returns v.
C8_ReplaceThenUnwrap ==
    /\ (call.self = "o" /\ call.op = "replace")
          => /\ After("o") = call.arg
             /\ call.out = RetOption(Option(Before("o")))
             /\ opt["old"] = Option(Before("o"))
             /\ Option_unwrap(opt["o"]).out = Ret(call.arg)
    /\ call.self = "old" => opt["o"] = call.pre.opt["o"]

\* C8 amended: as above, except that the following unwrap() on o returns v
\* when v is not None, and raises when v is None (o is then absent).
C8_Replace ==
    /\ (call.self = "o" /\ call.op = "replace")
          => /\ After("o") = call.arg
             /\ call.out = RetOption(Option(Before("o")))
             /\ opt["old"] = Option(Before("o"))
             /\ (Before("o") # None <=> ReportsPresent(opt["old"]))
             /\ call.arg # None => Option_unwrap(opt["o"]).out = Ret(call.arg)
             /\ call.arg = None => Option_unwrap(opt["o"]).out.kind = "raise"
    /\ call.self = "old" => opt["o"] = call.pre.opt["o"]
    /\ (call.self = "o" /\ call.op = "unwrap" /\ Before("o") # None)
          => call.out = Ret(Before("o"))

\* After o.replace(2) on o holding 1, the returned container has been
\* unwrapped (giving 1) and o still holds 2.
C8_Witness ==
    /\ call.self = "old" /\ call.op = "unwrap" /\ call.out = Ret(PyInt(1))
    /\ opt["o"] = Some(PyInt(2))
    /\ Option_unwrap(opt["o"]).out = Ret(PyInt(2))

\* C9 -- Option.take.  take() on o leaves o absent and returns a container
\* holding o's previous content (absent if o was absent); a take() on o
\* directly after a take() on o returns an absent container.
C9_TakeEffect ==
    (call.self = "o" /\ call.op = "take")
        => /\ After("o") = None
           /\ ReportsAbsent("o")
           /\ call.out = RetOption(Option(Before("o")))
           /\ opt["old"] = Option(Before("o"))
           /\ Before("o") = None => call.out = RetOption(Null)

C9_SecondTake ==
    (/\ call.self = "o" /\ call.op = "take"
     /\ call'.self = "o" /\ call'.op = "take")
        => (call'.out = RetOption(Null) /\ opt'["old"] = Null /\ opt'["o"] = Null)

C9_Take == []C9_TakeEffect /\ [][C9_SecondTake]_vars

\* take() on o holding 1 has returned a container holding 1 and emptied o.
C9_Witness ==
    /\ call.self = "o" /\ call.op = "take"
    /\ Before("o") = PyInt(1)
    /\ opt["old"] = Some(PyInt(1))
    /\ ReportsAbsent("o")

\* C10 -- Checking operations never consume.  A call of is_some, is_null,
\* is_ok or is_err leaves every container, the generator and what it has
\* yielded as they were, whatever the call returns or raises.
C10_ChecksKeepState ==
    [][call'.op \in Checks =>
          (opt' = opt /\ r' = r /\ gen' = gen /\ yielded' = yielded)]_vars

\* is_some() has been called on o holding 1, returned True and left 1 in o.
C10_Witness ==
    /\ call.self = "o" /\ call.op = "is_some"
    /\ call.out = Ret(PyBool(TRUE))
    /\ Before("o") = PyInt(1) /\ After("o") = PyInt(1)

\* C11 -- Option failure on absence.  On an absent Option, unwrap() raises
\* an exception carrying the fixed message and expect(msg) raises one
\* carrying exactly msg; neither returns, and the Option is still absent.
C11_FailsOnAbsence ==
    \A x \in OptNames :
        /\ (call.self = x /\ call.op = "unwrap" /\ Before(x) = None)
              => /\ call.out = Raise("Exception", PyStr("Called unwrap on a null value"))
                 /\ After(x) = None
        /\ (call.self = x /\ call.op = "expect" /\ Before(x) = None)
              => /\ call.out = Raise("Exception", call.arg)
                 /\ call.arg \in Msgs
                 /\ After(x) = None

\* expect(msg) on an absent o has raised an exception carrying msg.
C11_Witness ==
    /\ call.self = "o" /\ call.op = "expect" /\ Before("o") = None
    /\ call.out = Raise("Exception", PyStr("msg"))
    /\ ReportsAbsent("o")

\* C12 -- Result wrong-tag failure, as claimed: on an unconsumed Result
\* unwrap() returns the payload of an Ok and raises an exception reporting
\* the payload of an Err; unwrap_err() returns the payload of an Err and
\* raises an exception reporting the payload of an Ok.
C12_WrongTag ==
    (call.self = "r" /\ call.pre.r.value # None)
        => /\ call.op = "unwrap" =>
                call.out = IF call.pre.r.value.cls = "_Ok"
                           THEN Ret(PayloadBefore)
                           ELSE Raise("Exception", PayloadBefore)
           /\ call.op = "unwrap_err" =>
                call.out = IF call.pre.r.value.cls = "_Err"
                           THEN Ret(PayloadBefore)
                           ELSE Raise("Exception", PayloadBefore)

\* C13 -- Result to Option conversion, as claimed: on an unconsumed Result
\* ok() returns Some(payload) for an Ok and an absent Option for an Err;
\* err() returns Some(payload) for an Err and an absent Option for an Ok.
C13_Conversion ==
    (call.self = "r" /\ call.pre.r.value # None)
        => /\ call.op = "ok" =>
                call.out = IF call.pre.r.value.cls = "_Ok"
                           THEN RetOption(Some(PayloadBefore))
                           ELSE RetOption(Null)
           /\ call.op = "err" =>
                call.out = IF call.pre.r.value.cls = "_Err"
                           THEN RetOption(Some(PayloadBefore))
                           ELSE RetOption(Null)

\* C15 -- Second extraction on a consumed Result, as claimed: every
\* extracting operation called on a cleared cell fails by calling the cleared
\* cell (TypeError: 'NoneType' object is not callable).
NoneNotCallable == Raise("TypeError", PyStr("'NoneType' object is not callable"))

C18_FailedKeepsPayload ==
    (call.self = "r" /\ call.pre.r.value # None)
        => /\ (call.op \in {"unwrap", "expect"} /\ call.pre.r.value.cls = "_Err")
                 => /\ call.out.kind = "raise"
                    /\ r = call.pre.r
                    /\ Result_unwrap_err(r).out = Ret(PayloadBefore)
           /\ (call.op = "unwrap_err" /\ call.pre.r.value.cls = "_Ok")
                 => /\ call.out.kind = "raise"
                    /\ r = call.pre.r
                    /\ Result_unwrap(r).out = Ret(PayloadBefore)

\* C19 -- The unchecked Result extractors are tag-blind.  On an unconsumed
\* Result, unwrap_unchecked() and unwrap_err_unchecked() do the same thing:
\* each returns the payload of the cell whatever its tag and clears the cell,
\* after which neither unwrap() nor unwrap_err() returns.
C19_TagBlind ==
    (/\ call.self = "r" /\ call.pre.r.value # None
     /\ call.op \in {"unwrap_unchecked", "unwrap_err_unchecked"})
        => /\ call.out = Ret(PayloadBefore)
           /\ r.value = None
           /\ Result_unwrap_unchecked(call.pre.r) = Result_unwrap_err_unchecked(call.pre.r)
           /\ Result_unwrap(r).out.kind = "raise"
           /\ Result_unwrap_err(r).out.kind = "raise"

\* unwrap_err_unchecked() on an Ok has returned the success payload.
C19_Witness ==
    /\ call.self = "r" /\ call.op = "unwrap_err_unchecked"
    /\ built = "Ok" /\ call.pre.r = Ok(PyInt(1))
    /\ call.out = Ret(PyInt(1))
    /\ r.value = None

\* C20 -- iter() is lazy and non-consuming.  Neither iter() nor an advance of
\* the generator changes a container, and the first element yielded reflects
\* the source as it is at that advance, not as it was when iter() was called.
C20_FirstAdvance ==
    (/\ gen.src \in OptNames /\ call.op = "next"
     /\ call.out.kind = "yield" /\ Len(yielded) = 1)
        => call.out = Yield(IF Before(gen.src) # None
                            THEN Some(Before(gen.src)) ELSE Null)

C20_KeepsContainers ==
    call'.op \in {"iter", "next"} => (opt' = opt /\ r' = r)

C20_LazyIter == []C20_FirstAdvance /\ [][C20_KeepsContainers]_vars

\* o held a payload when o.iter() was called, was consumed before the first
\* advance, and the generator has yielded Null() first.
C20_Witness ==
    /\ gen.src = "o" /\ gen.at
    /\ call.op = "next" /\ call.out = Yield(Null)
    /\ yielded = <<Null>>

\* C14 -- Representational limitation.  An Option built by Some(None) and
\* one built by Null(), put through the same calls, hold the same slot, give
\* the same outcome at every call and yield the same elements; and until a
\* replace stores a value, is_some() reports False for both.
C14_Indistinguishable ==
    /\ twin.a = twin.b
    /\ twin.outa = twin.outb
    /\ twin.pca = twin.pcb
    /\ twin.ya = twin.yb
    /\ ~twin.stored =>
          /\ is_some(twin.a).out = Ret(PyBool(FALSE))
          /\ is_some(twin.b).out = Ret(PyBool(FALSE))
    /\ (twin.op = "is_some" /\ ~twin.stored) =>
          (twin.outa = Ret(PyBool(FALSE)) /\ twin.outb = Ret(PyBool(FALSE)))

\* is_some() has been called on both, before any replace, and returned False
\* for the one built by Some(None) as for the one built by Null().
C14_Witness ==
    /\ twin.op = "is_some" /\ ~twin.stored
    /\ twin.outa = Ret(PyBool(FALSE))
    /\ twin.outb = Ret(PyBool(FALSE))

\* C17 -- Concurrent extraction race.  With two threads inside unwrap() on
\* the same Option built holding x, every finished call has returned x,
\* returned None or raised the fixed-message exception; once both have
\* finished the Option is absent and, if x is not None, at least one call
\* has returned x.  Nothing limits it to one: see the witness.
RaceDone == \A t \in Threads : race.th[t].pc = "done"

C17_RaceOutcomes ==
    /\ \A t \in Threads :
          race.th[t].pc = "done" =>
              race.th[t].out \in
                  {Ret(race.x0), Ret(None),
                   Raise("Exception", PyStr("Called unwrap on a null value"))}
    /\ RaceDone =>
          /\ opt["o"] = Null
          /\ race.x0 # None => \E t \in Threads : race.th[t].out = Ret(race.x0)

\* Both concurrent unwrap() calls have returned the same payload 1.
C17_Witness ==
    /\ race.x0 = PyInt(1)
    /\ \A t \in Threads :
          race.th[t].pc = "done" /\ race.th[t].out = Ret(PyInt(1))

====
